---- MODULE Spec2Model ----
(***************************************************************************)
(* A model of ground_truth/scripts/feature_extractor.py: the line parser,  *)
(* the feature extraction engine and the batch exporter.                   *)
(*                                                                         *)
(* Python strings are TLA+ strings (sequences of characters); the regular  *)
(* expressions of the rule tables are written out as the string tests      *)
(* they perform.  Python objects with identity (the working sets of an     *)
(* AppFeatures) live in a heap of set objects addressed by references.     *)
(***************************************************************************)
EXTENDS Integers, Sequences, FiniteSets, TLC

VARIABLES
    records,       \* extract_features: the argument `records`
    package,       \* extract_features: the argument `package`
    features,      \* extract_features: the returned AppFeatures (NoValue before the call)
    heap,          \* the set objects alive in the interpreter: reference -> set of strings
    probe,         \* purity: the record sequence that is extracted repeatedly
    first,         \* purity: the vector the first call on `probe` returned
    last,          \* purity: what the most recent call was given and returned
    ncalls,        \* purity: number of extract_features calls made
    log_lines,     \* parse_syscall_log: the lines of the file
    parsed,        \* parse_syscall_log: its outcome (NoValue before the call)
    dir,           \* process_all_traces: the trace directory, file name -> file
    out_before,    \* process_all_traces: the output file before the run
    output_csv,    \* process_all_traces: the output file
    trace_files,   \* process_all_traces: the list glob returned
    todo,          \* process_all_traces: sorted(trace_files) still to process
    all_features,  \* process_all_traces: the rows aggregated so far
    stdout,        \* process_all_traces: the lines printed
    pc             \* process_all_traces: position in the function

vars == << records, package, features, heap, probe, first, last, ncalls,
           log_lines, parsed, dir, out_before, output_csv, trace_files, todo,
           all_features, stdout, pc >>

extractVars == << records, package, features >>
purityVars  == << probe, first, last, ncalls >>
parseVars   == << log_lines, parsed >>
batchVars   == << dir, out_before, output_csv, trace_files, todo, all_features, stdout, pc >>

NoValue == [none |-> TRUE]

(***************************************************************************)
(* Bounds of the model.                                                    *)
(***************************************************************************)
MaxRecords == 2
MaxCalls == 3
MaxLines == 2
MaxFiles == 3

(***************************************************************************)
(* Strings.                                                                *)
(***************************************************************************)
Char(s, i) == SubSeq(s, i, i)

\* str.startswith
StartsWith(s, p) == Len(s) >= Len(p) /\ SubSeq(s, 1, Len(p)) = p

\* str.endswith
EndsWith(s, p) == Len(s) >= Len(p) /\ SubSeq(s, Len(s) - Len(p) + 1, Len(s)) = p

\* the literal p occurs in s at position i
At(s, i, p) == i >= 1 /\ i + Len(p) - 1 <= Len(s) /\ SubSeq(s, i, i + Len(p) - 1) = p

\* re: `$` matches at the end of the string and just before a final newline
AtDollar(s, i) == i = Len(s) + 1 \/ (i = Len(s) /\ Char(s, i) = "\n")

\* re: `.*` spans s[i..j] only if it holds no newline
NoNewline(s, i, j) == \A k \in i..j : Char(s, k) # "\n"

\* re.match(lit + ".*", s)
MatchPrefix(s, lit) == StartsWith(s, lit)

\* re.search(lit, s)
SearchLit(s, lit) == \E i \in 1..Len(s) : At(s, i, lit)

\* re.search(lit + "$", s)
SearchLitEnd(s, lit) == \E i \in 1..Len(s) : At(s, i, lit) /\ AtDollar(s, i + Len(lit))

\* re.search(a + ".*" + b, s)
SearchGap(s, a, b) ==
    \E i \in 1..Len(s) :
        /\ At(s, i, a)
        /\ \E j \in (i + Len(a))..Len(s) :
               At(s, j, b) /\ NoNewline(s, i + Len(a), j - 1)

\* re.search(a + ".*" + b + "$", s)
SearchGapEnd(s, a, b) ==
    \E i \in 1..Len(s) :
        /\ At(s, i, a)
        /\ \E j \in (i + Len(a))..Len(s) :
               At(s, j, b) /\ NoNewline(s, i + Len(a), j - 1) /\ AtDollar(s, j + Len(b))

Digits == {"0", "1", "2", "3", "4", "5", "6", "7", "8", "9"}

(***************************************************************************)
(* The classification rule tables.                                         *)
(***************************************************************************)
ThreadCategories ==
    << "okhttp", "okhttp_task", "rxjava", "rxjava_cached", "coroutines",
       "workmanager", "workmanager_alt", "room_io", "glide", "glide_source",
       "glide_disk", "coil", "fresco", "binder", "async_task", "thread_pool",
       "exoplayer", "flutter", "render_thread" >>

\* s[i..] starts with one or more digits followed by the literal `then`
DigitsThen(s, i, then) ==
    \E j \in (i + 1)..(Len(s) + 1) :
        /\ \A k \in i..(j - 1) : Char(s, k) \in Digits
        /\ (then = "" \/ At(s, j, then))

\* s[i..] starts with one or more digits, the literal `mid`, one or more digits
DigitsMidDigits(s, i, mid) ==
    \E j \in (i + 1)..(Len(s) + 1) :
        /\ \A k \in i..(j - 1) : Char(s, k) \in Digits
        /\ At(s, j, mid)
        /\ DigitsThen(s, j + Len(mid), "")

\* re.match(THREAD_PATTERNS[cat], s)
ThreadMatch(cat, s) ==
    CASE cat = "okhttp"          -> MatchPrefix(s, "OkHttp")
      [] cat = "okhttp_task"     -> MatchPrefix(s, "OkHttp TaskRunn")
      [] cat = "rxjava"          ->
            \E alt \in {"Cached", "Computation", "IO", "Single", "NewThread", "Scheduler"} :
                MatchPrefix(s, "Rx" \o alt)
      [] cat = "rxjava_cached"   -> MatchPrefix(s, "RxCachedThreadS")
      [] cat = "coroutines"      -> MatchPrefix(s, "DefaultDispatch")
      [] cat = "workmanager"     -> MatchPrefix(s, "WM.task")
      [] cat = "workmanager_alt" -> MatchPrefix(s, "androidx.work")
      [] cat = "room_io"         -> MatchPrefix(s, "arch_disk_io")
      [] cat = "glide"           -> MatchPrefix(s, "Glide") \/ MatchPrefix(s, "glide")
      [] cat = "glide_source"    -> MatchPrefix(s, "glide-source-th")
      [] cat = "glide_disk"      -> MatchPrefix(s, "glide-disk-cach")
      [] cat = "coil"            -> MatchPrefix(s, "Coil") \/ MatchPrefix(s, "coil")
      [] cat = "fresco"          -> MatchPrefix(s, "Fresco") \/ MatchPrefix(s, "fresco")
      [] cat = "binder"          -> MatchPrefix(s, "binder:")
      [] cat = "async_task"      -> MatchPrefix(s, "AsyncTask")
      [] cat = "thread_pool"     -> StartsWith(s, "pool-") /\ DigitsMidDigits(s, 6, "-thread-")
      [] cat = "exoplayer"       -> MatchPrefix(s, "ExoPlayer")
      [] cat = "flutter"         -> MatchPrefix(s, "flutter-worker-") \/ MatchPrefix(s, "DartWorker")
      [] cat = "render_thread"   -> MatchPrefix(s, "RenderThread")

PathCategories ==
    << "room_wal", "room_shm", "room_journal", "workmanager_db", "datastore",
       "okhttp_cache", "okhttp_cache_dir", "okhttp_journal", "glide_cache",
       "glide_journal", "coil_cache", "coil_cache_v3", "coil_journal",
       "fresco_cache", "database", "sqlite", "sqlite_journal", "shared_prefs",
       "native_lib", "cacerts", "http_cache" >>

\* re.search(PATH_PATTERNS[cat], s)
PathSearch(cat, s) ==
    CASE cat = "room_wal"         -> SearchLitEnd(s, ".db-wal")
      [] cat = "room_shm"         -> SearchLitEnd(s, ".db-shm")
      [] cat = "room_journal"     -> SearchLitEnd(s, ".db-journal")
      [] cat = "workmanager_db"   -> SearchLit(s, "androidx.work.workdb")
      [] cat = "datastore"        -> SearchGapEnd(s, "datastore", ".preferences_pb")
      [] cat = "okhttp_cache"     -> SearchLit(s, "okHttpCache")
      [] cat = "okhttp_cache_dir" -> SearchLit(s, "/cache/okhttp/")
      [] cat = "okhttp_journal"   -> SearchGap(s, "okhttp", "journal")
      [] cat = "glide_cache"      -> SearchLit(s, "glide") \/ SearchLit(s, "image_manager_disk_cache")
      [] cat = "glide_journal"    -> SearchGap(s, "image_manager_disk_cache", "journal")
      [] cat = "coil_cache"       -> SearchLit(s, "coil") \/ SearchLit(s, "image_loader")
      [] cat = "coil_cache_v3"    -> SearchLit(s, "coil_disk_cache") \/ SearchLit(s, "coil3_disk_cache")
      [] cat = "coil_journal"     -> SearchGap(s, "coil", "journal")
      [] cat = "fresco_cache"     -> SearchLit(s, "fresco") \/ SearchLit(s, "imagepipeline")
      [] cat = "database"         -> SearchLitEnd(s, ".db")
      [] cat = "sqlite"           -> SearchLitEnd(s, ".sqlite")
      [] cat = "sqlite_journal"   -> SearchLitEnd(s, ".sqlite-journal")
      [] cat = "shared_prefs"     -> SearchGapEnd(s, "shared_prefs", ".xml")
      [] cat = "native_lib"       -> SearchLitEnd(s, ".so")
      [] cat = "cacerts"          -> SearchLit(s, "cacerts")
      [] cat = "http_cache"       -> SearchGap(s, "HTTP", "Cache") \/ SearchGap(s, "HTTP", "cache")

(***************************************************************************)
(* The record of one traced event.                                         *)
(***************************************************************************)
\* SyscallRecord(): every field at its declared default
SyscallRecord ==
    [ timestamp |-> "", syscall |-> "", pid |-> 0, tid |-> 0, uid |-> 0,
      comm |-> "", path |-> "", fd |-> -1, flags |-> "", count |-> 0,
      actual |-> 0, family |-> "", ip |-> "", port |-> 0, child_pid |-> 0,
      clone_type |-> "", prot |-> "", raw_line |-> "" ]

(***************************************************************************)
(* Python objects: set objects on the heap, instances as ordered __dict__. *)
(***************************************************************************)
\* the lowest reference no live object has
FreshRef(h) ==
    CHOOSE r \in 1..(Cardinality(DOMAIN h) + 1) :
        r \notin DOMAIN h /\ \A q \in 1..(r - 1) : q \in DOMAIN h

\* a mutant of NewSet: one set object made once and shared by every later `set()`
NewSetShared(h) ==
    IF 1 \in DOMAIN h THEN [heap |-> h, ref |-> 1]
    ELSE [heap |-> h @@ (1 :> {}), ref |-> 1]

\* set(): a new, empty set object
NewSet(h) == [heap |-> h @@ (FreshRef(h) :> {}), ref |-> FreshRef(h)]

\* s.add(x) on the set object at ref
SetAdd(h, ref, x) == [h EXCEPT ![ref] = @ \cup {x}]

\* a mutant of SetAttr: the key is deleted and stored again, at the end of __dict__
SetAttrReinsert(obj, key, value) ==
    [keys |-> Append(SelectSeq(obj.keys, LAMBDA k : k # key), key),
     vals |-> [k \in (DOMAIN obj.vals) \cup {key} |-> IF k = key THEN value ELSE obj.vals[k]]]

\* obj.key = value: an existing key keeps its place in __dict__
SetAttr(obj, key, value) ==
    IF key \in DOMAIN obj.vals
    THEN [obj EXCEPT !.vals[key] = value]
    ELSE [keys |-> Append(obj.keys, key), vals |-> obj.vals @@ (key :> value)]

\* the objects the garbage collector keeps: those some live reference names
Collect(h, live) == [r \in (DOMAIN h) \cap live |-> h[r]]

(***************************************************************************)
(* Floats: IEEE 754 binary64 values that are zero or positive and normal.  *)
(* A float is [mant, exp] and stands for mant * 2^exp, where mant is a     *)
(* natural number of exactly 53 bits held as three limbs, most significant *)
(* first, of 5, 24 and 24 bits; zero has the limbs 0 and the exponent 0.   *)
(* Every operation rounds its exact result to the nearest float, ties to   *)
(* the even mantissa.                                                      *)
(***************************************************************************)
\* the base of the limbs: 2^24
LimbBase == 16777216

\* the number of bits of a natural number below 2^30
BitLen(v) == CHOOSE k \in 0..30 : v < 2^k /\ (k = 0 \/ v >= 2^(k - 1))

\* the limbs of a natural number whose limbs may have grown past the base
BigCarry(x) ==
    << x[1] + (x[2] + x[3] \div LimbBase) \div LimbBase,
       (x[2] + x[3] \div LimbBase) % LimbBase,
       x[3] % LimbBase >>

BigGeq(x, y) ==
    \/ x[1] > y[1]
    \/ x[1] = y[1] /\ x[2] > y[2]
    \/ x[1] = y[1] /\ x[2] = y[2] /\ x[3] >= y[3]

\* x - y, for x >= y
BigSub(x, y) ==
    << x[1] - y[1] - (IF x[2] - (IF x[3] < y[3] THEN 1 ELSE 0) < y[2] THEN 1 ELSE 0),
       (x[2] - (IF x[3] < y[3] THEN 1 ELSE 0) - y[2] + LimbBase) % LimbBase,
       (x[3] - y[3] + LimbBase) % LimbBase >>

\* x * k, for a k below 2^7
BigTimes(x, k) == BigCarry(<< x[1] * k, x[2] * k, x[3] * k >>)

\* x + b, for b below the base
BigPlus(x, b) == BigCarry(<< x[1], x[2], x[3] + b >>)

\* floor(x / 2^s), for s in 0..23
BigShr(x, s) ==
    << x[1] \div 2^s,
       (x[1] % 2^s) * 2^(24 - s) + x[2] \div 2^s,
       (x[2] % 2^s) * 2^(24 - s) + x[3] \div 2^s >>

\* the bits of x below bit s are not all zero, for s in 0..23
BigLowBits(x, s) == x[3] % 2^s # 0

BigBitLen(x) ==
    IF x[1] # 0 THEN 48 + BitLen(x[1])
    ELSE IF x[2] # 0 THEN 24 + BitLen(x[2])
    ELSE BitLen(x[3])

FloatZero == [mant |-> << 0, 0, 0 >>, exp |-> 0]

\* the float nearest to big * 2^exp, for a big of 53 to 76 bits of which at most
\* the lowest 23 are dropped; sticky tells that the exact value is a little larger
RoundFloat(big, exp, sticky) ==
    LET Rounded(s, kept, up) ==
            IF BigBitLen(BigPlus(kept, up)) = 54
            THEN [mant |-> << 16, 0, 0 >>, exp |-> exp + s + 1]
            ELSE [mant |-> BigPlus(kept, up), exp |-> exp + s]
        Shifted(s, kept) ==
            Rounded(s, kept,
                    IF s = 0 THEN 0
                    ELSE IF BigShr(big, s - 1)[3] % 2 = 0 THEN 0
                    ELSE IF sticky \/ BigLowBits(big, s - 1) \/ kept[3] % 2 = 1 THEN 1
                    ELSE 0)
        Dropping(s) == Shifted(s, BigShr(big, s))
    IN  Dropping(BigBitLen(big) - 53)

\* float(n) for an int n in 0 .. 2^24 - 1, which is exact
FloatOf(n) ==
    IF n = 0 THEN FloatZero
    ELSE [mant |-> IF BitLen(n) <= 5
                   THEN << n * 2^(5 - BitLen(n)), 0, 0 >>
                   ELSE << n \div 2^(BitLen(n) - 5),
                           (n % 2^(BitLen(n) - 5)) * 2^(29 - BitLen(n)), 0 >>,
          exp |-> BitLen(n) - 53]

\* the leading 17 bits of a number below 2^53
BigLead(x) == x[1] * 4096 + x[2] \div 4096

\* the long division of st.r * 64^i by d, six quotient bits a step: the
\* leading bits of remainder and divisor give the digit or one less
RECURSIVE LongDiv(_, _, _)
LongDiv(st, d, i) ==
    LET Digit(rem, digit) ==
            IF BigGeq(rem, d)
            THEN [r |-> BigSub(rem, d), q |-> BigPlus(BigTimes(st.q, 64), digit + 1)]
            ELSE [r |-> rem, q |-> BigPlus(BigTimes(st.q, 64), digit)]
        Estimate(digit) == Digit(BigSub(BigTimes(st.r, 64), BigTimes(d, digit)), digit)
    IN  IF i = 0 THEN st
        ELSE IF st.r = << 0, 0, 0 >>
        THEN LongDiv([r |-> st.r, q |-> BigTimes(st.q, 64)], d, i - 1)
        ELSE LongDiv(Estimate((64 * BigLead(st.r)) \div (BigLead(d) + 1)), d, i - 1)

\* x / y for floats x and y, y not zero: 54 quotient bits and the remainder
FloatDiv(x, y) ==
    LET Quotient(st) == RoundFloat(st.q, x.exp - y.exp - 54, st.r # << 0, 0, 0 >>)
    IN  IF x = FloatZero THEN FloatZero
        ELSE Quotient(LongDiv([r |-> x.mant, q |-> << 0, 0, 0 >>], y.mant, 9))

\* an int divided by a float, the quotient cut to 53 bits instead of rounded
DivFloatTruncated(n, x) ==
    LET Cut(q, exp) == [mant |-> BigShr(q, BigBitLen(q) - 53),
                        exp |-> exp + BigBitLen(q) - 53]
    IN  IF n = 0 THEN FloatZero
        ELSE Cut(LongDiv([r |-> FloatOf(n).mant, q |-> << 0, 0, 0 >>], x.mant, 9).q,
                 FloatOf(n).exp - x.exp - 54)

\* an int divided by a float
DivFloat(n, x) == FloatDiv(FloatOf(n), x)

(***************************************************************************)
(* The feature vector.                                                     *)
(***************************************************************************)
\* the dataclass fields in declaration order, which is the order of __dict__
AppFeaturesFields ==
    << "package", "total_syscalls", "trace_duration_sec",
       "has_okhttp_thread", "has_okhttp_task_thread", "has_rxjava_thread",
       "has_rxjava_cached_thread", "has_coroutine_thread", "has_workmanager_thread",
       "has_workmanager_alt_thread", "has_room_io_thread",
       "has_glide_thread", "has_glide_source_thread", "has_glide_disk_thread",
       "has_coil_thread", "has_fresco_thread",
       "has_exoplayer_thread", "has_flutter_thread", "has_async_task_thread",
       "has_room_wal", "has_room_shm", "has_room_journal", "has_workmanager_db",
       "has_datastore", "has_okhttp_cache", "has_okhttp_cache_dir", "has_okhttp_journal",
       "has_glide_cache", "has_glide_journal", "has_coil_cache", "has_coil_cache_v3",
       "has_coil_journal", "has_fresco_cache",
       "has_cacerts_access", "has_http_cache",
       "has_ipv4_connect", "has_ipv6_connect", "num_port_443_connects",
       "num_unique_threads", "num_threads_spawned", "num_databases",
       "num_shared_prefs", "num_native_libs", "num_tcp_sockets", "num_udp_sockets",
       "num_unix_sockets", "num_network_connects", "num_unique_ips",
       "num_openat", "num_read", "num_write", "num_close", "num_clone", "num_mmap",
       "num_socket", "num_connect",
       "total_bytes_read", "total_bytes_written",
       "syscalls_per_second", "threads_per_second",
       "_thread_names", "_file_paths", "_ip_addresses" >>

\* the fields annotated bool, str, float and Set[str]; the others are int
BoolFields ==
    { AppFeaturesFields[i] : i \in { j \in 1..Len(AppFeaturesFields) : StartsWith(AppFeaturesFields[j], "has_") } }
FloatFields == {"trace_duration_sec", "syscalls_per_second", "threads_per_second"}
SetFields == {"_thread_names", "_file_paths", "_ip_addresses"}
IntFields ==
    { AppFeaturesFields[i] : i \in 1..Len(AppFeaturesFields) }
        \ (BoolFields \cup FloatFields \cup SetFields \cup {"package"})

\* a mutant of FieldDefault: an int field starts at -1, as SyscallRecord.fd does
FieldDefaultMinusOne(key) ==
    IF key \in BoolFields THEN FALSE
    ELSE IF key \in FloatFields THEN FloatZero
    ELSE IF key = "package" THEN ""
    ELSE -1

\* the declared default of a field; a Set field's default_factory gives a new set
FieldDefault(key) ==
    IF key \in BoolFields THEN FALSE
    ELSE IF key \in FloatFields THEN FloatZero
    ELSE IF key = "package" THEN ""
    ELSE 0

\* AppFeatures(package=package): __init__ stores every field, in declaration
\* order; the three default_factory calls each make a new set
AppFeatures(h, pkg) ==
    LET s1 == NewSet(h)
        s2 == NewSet(s1.heap)
        s3 == NewSet(s2.heap)
        sets == [_thread_names |-> s1.ref, _file_paths |-> s2.ref, _ip_addresses |-> s3.ref]
    IN  [obj |-> [keys |-> AppFeaturesFields,
                  vals |-> [key \in {AppFeaturesFields[i] : i \in 1..Len(AppFeaturesFields)} |->
                               IF key \in SetFields THEN sets[key]
                               ELSE IF key = "package" THEN pkg
                               ELSE FieldDefault(key)]],
         heap |-> s3.heap]

(***************************************************************************)
(* extract_features.                                                       *)
(***************************************************************************)
Incr(f, key) == SetAttr(f, key, f.vals[key] + 1)

\* a mutant of TallyRead: the requested count is added, not the transferred one
TallyReadRequested(f, record) ==
    SetAttr(Incr(f, "num_read"), "total_bytes_read",
            f.vals["total_bytes_read"] + record.count)

\* the branch `elif syscall == 'read'`
TallyRead(f, record) ==
    SetAttr(Incr(f, "num_read"), "total_bytes_read",
            f.vals["total_bytes_read"] + record.actual)

\* the branch `elif syscall == 'write'`
TallyWrite(f, record) ==
    SetAttr(Incr(f, "num_write"), "total_bytes_written",
            f.vals["total_bytes_written"] + record.actual)

\* `if record.timestamp:` with its two assignments
TallyTimestamp(st, record) ==
    IF record.timestamp # ""
    THEN [st EXCEPT !.first_ts = IF st.first_ts = NoValue
                                 THEN [none |-> FALSE, value |-> record.timestamp]
                                 ELSE st.first_ts,
                    !.last_ts = [none |-> FALSE, value |-> record.timestamp]]
    ELSE st

\* `if record.comm: thread_names.add(record.comm)`
TallyComm(st, record) ==
    IF record.comm # ""
    THEN [st EXCEPT !.heap = SetAdd(st.heap, st.thread_names, record.comm)]
    ELSE st

\* `if record.path: file_paths.add(record.path)`
TallyPath(st, record) ==
    IF record.path # ""
    THEN [st EXCEPT !.heap = SetAdd(st.heap, st.file_paths, record.path)]
    ELSE st

\* a mutant of TallyOpen: any opened path that holds '.db' counts as a database
TallyOpenContainsDb(st, record) ==
    IF SearchLit(record.path, ".db")
    THEN [st EXCEPT !.f = Incr(st.f, "num_openat"),
                    !.heap = SetAdd(st.heap, st.database_files, record.path)]
    ELSE [st EXCEPT !.f = Incr(st.f, "num_openat")]

\* the branch `if syscall in ('openat', 'open')`
TallyOpen(st, record) ==
    IF EndsWith(record.path, ".db")
    THEN [st EXCEPT !.f = Incr(st.f, "num_openat"),
                    !.heap = SetAdd(st.heap, st.database_files, record.path)]
    ELSE [st EXCEPT !.f = Incr(st.f, "num_openat")]

\* a mutant of TallySocket: only ipv4 sockets are counted as tcp, ipv6 ones as udp
TallySocketIpv6AsUdp(f, record) ==
    IF record.family = "ipv4"
    THEN Incr(Incr(f, "num_socket"), "num_tcp_sockets")
    ELSE IF record.family = "ipv6"
    THEN Incr(Incr(f, "num_socket"), "num_udp_sockets")
    ELSE IF record.family = "unix"
    THEN Incr(Incr(f, "num_socket"), "num_unix_sockets")
    ELSE Incr(f, "num_socket")

\* a mutant of TallySocket: a socket of an IP family is also taken for a connection
TallySocketAsConnect(f, record) ==
    IF record.family = "ipv4" \/ record.family = "ipv6"
    THEN SetAttr(Incr(Incr(Incr(f, "num_socket"), "num_tcp_sockets"), "num_network_connects"),
                 "has_ipv4_connect", TRUE)
    ELSE IF record.family = "unix"
    THEN Incr(Incr(f, "num_socket"), "num_unix_sockets")
    ELSE Incr(f, "num_socket")

\* the branch `elif syscall == 'socket'`
TallySocket(f, record) ==
    IF record.family = "ipv4" \/ record.family = "ipv6"
    THEN Incr(Incr(f, "num_socket"), "num_tcp_sockets")
    ELSE IF record.family = "unix"
    THEN Incr(Incr(f, "num_socket"), "num_unix_sockets")
    ELSE Incr(f, "num_socket")

\* the flags and counts of the branch `elif syscall == 'connect'`
TallyConnectPort(f, record) ==
    IF record.port = 443 THEN Incr(f, "num_port_443_connects") ELSE f

\* a mutant of TallyConnectFamily: the family of the latest connect wins
TallyConnectFamilyLatest(f, record) ==
    IF record.family = "ipv4"
    THEN SetAttr(SetAttr(f, "has_ipv4_connect", TRUE), "has_ipv6_connect", FALSE)
    ELSE IF record.family = "ipv6"
    THEN SetAttr(SetAttr(f, "has_ipv6_connect", TRUE), "has_ipv4_connect", FALSE)
    ELSE f

TallyConnectFamily(f, record) ==
    IF record.family = "ipv4" THEN SetAttr(f, "has_ipv4_connect", TRUE)
    ELSE IF record.family = "ipv6" THEN SetAttr(f, "has_ipv6_connect", TRUE)
    ELSE f

TallyConnect(st, record) ==
    [st EXCEPT !.f = TallyConnectPort(
                         TallyConnectFamily(
                             Incr(Incr(st.f, "num_connect"), "num_network_connects"),
                             record),
                         record),
               !.heap = IF record.ip # ""
                        THEN SetAdd(st.heap, st.ip_addresses, record.ip)
                        ELSE st.heap]

\* the if/elif chain over record.syscall
TallySyscall(st, record) ==
    IF record.syscall = "openat" \/ record.syscall = "open"
    THEN TallyOpen(st, record)
    ELSE IF record.syscall = "read"
    THEN [st EXCEPT !.f = TallyRead(st.f, record)]
    ELSE IF record.syscall = "write"
    THEN [st EXCEPT !.f = TallyWrite(st.f, record)]
    ELSE IF record.syscall = "close"
    THEN [st EXCEPT !.f = Incr(st.f, "num_close")]
    ELSE IF record.syscall = "clone"
    THEN [st EXCEPT !.f = IF record.clone_type = "thread"
                          THEN Incr(Incr(st.f, "num_clone"), "num_threads_spawned")
                          ELSE Incr(st.f, "num_clone")]
    ELSE IF record.syscall = "mmap"
    THEN [st EXCEPT !.f = Incr(st.f, "num_mmap")]
    ELSE IF record.syscall = "socket"
    THEN [st EXCEPT !.f = TallySocket(st.f, record)]
    ELSE IF record.syscall = "connect"
    THEN TallyConnect(st, record)
    ELSE st

\* the body of `for record in records`
TallyRecord(st, record) ==
    TallySyscall(TallyPath(TallyComm(TallyTimestamp(st, record), record), record), record)

RECURSIVE Tally(_, _, _)
Tally(st, recs, i) ==
    IF i > Len(recs) THEN st ELSE Tally(TallyRecord(st, recs[i]), recs, i + 1)

\* the thread-name tests of the classification pass, in the order of the code
ThreadFlags ==
    << <<"okhttp", "has_okhttp_thread">>, <<"okhttp_task", "has_okhttp_task_thread">>,
       <<"rxjava", "has_rxjava_thread">>, <<"rxjava_cached", "has_rxjava_cached_thread">>,
       <<"coroutines", "has_coroutine_thread">>,
       <<"workmanager", "has_workmanager_thread">>,
       <<"workmanager_alt", "has_workmanager_alt_thread">>,
       <<"room_io", "has_room_io_thread">>,
       <<"glide", "has_glide_thread">>, <<"glide_source", "has_glide_source_thread">>,
       <<"glide_disk", "has_glide_disk_thread">>,
       <<"coil", "has_coil_thread">>, <<"fresco", "has_fresco_thread">>,
       <<"exoplayer", "has_exoplayer_thread">>, <<"flutter", "has_flutter_thread">>,
       <<"async_task", "has_async_task_thread">> >>

\* the path tests of the classification pass, in the order of the code
PathFlags ==
    << <<"room_wal", "has_room_wal">>, <<"room_shm", "has_room_shm">>,
       <<"room_journal", "has_room_journal">>,
       <<"workmanager_db", "has_workmanager_db">>,
       <<"datastore", "has_datastore">>,
       <<"okhttp_cache", "has_okhttp_cache">>, <<"okhttp_cache_dir", "has_okhttp_cache_dir">>,
       <<"okhttp_journal", "has_okhttp_journal">>,
       <<"glide_cache", "has_glide_cache">>, <<"glide_journal", "has_glide_journal">>,
       <<"coil_cache", "has_coil_cache">>, <<"coil_cache_v3", "has_coil_cache_v3">>,
       <<"coil_journal", "has_coil_journal">>,
       <<"fresco_cache", "has_fresco_cache">>,
       <<"cacerts", "has_cacerts_access">>, <<"http_cache", "has_http_cache">>,
       <<"shared_prefs", "num_shared_prefs">>, <<"native_lib", "num_native_libs">> >>

\* a mutant of ThreadTests: the okhttp_task test is given the okhttp pattern
ThreadTestsCopyPaste(thread_name) ==
    { i \in 1..Len(ThreadFlags) :
        ThreadMatch(ThreadFlags[IF i = 2 THEN 1 ELSE i][1], thread_name) }

\* the `if re.match(THREAD_PATTERNS[...], thread_name)` statements that succeed
ThreadTests(thread_name) ==
    { i \in 1..Len(ThreadFlags) : ThreadMatch(ThreadFlags[i][1], thread_name) }

\* the body of `for thread_name in thread_names`: each test that succeeds sets its flag
ClassifyThread(f, thread_name) ==
    LET hit == { ThreadFlags[i][2] : i \in ThreadTests(thread_name) } IN
    [f EXCEPT !.vals = [key \in DOMAIN f.vals |-> IF key \in hit THEN TRUE ELSE f.vals[key]]]

RECURSIVE ClassifyThreads(_, _)
ClassifyThreads(f, thread_names) ==
    IF thread_names = {} THEN f
    ELSE LET thread_name == CHOOSE t \in thread_names : TRUE IN
         ClassifyThreads(ClassifyThread(f, thread_name), thread_names \ {thread_name})

\* a mutant of PathTests: the tests form one if/elif chain, the first match wins
PathTestsFirstMatch(path) ==
    { i \in 1..Len(PathFlags) :
        /\ PathSearch(PathFlags[i][1], path)
        /\ \A j \in 1..(i - 1) : ~PathSearch(PathFlags[j][1], path) }

\* the `if re.search(PATH_PATTERNS[...], path)` statements that succeed
PathTests(path) ==
    { i \in 1..Len(PathFlags) : PathSearch(PathFlags[i][1], path) }

\* the body of `for path in file_paths`: each test that succeeds sets its flag
\* or increments its count
ClassifyPath(f, path) ==
    LET hit == { PathFlags[i][2] : i \in PathTests(path) } IN
    [f EXCEPT !.vals = [key \in DOMAIN f.vals |->
                           IF key \notin hit THEN f.vals[key]
                           ELSE IF key \in BoolFields THEN TRUE
                           ELSE f.vals[key] + 1]]

RECURSIVE ClassifyPaths(_, _)
ClassifyPaths(f, file_paths) ==
    IF file_paths = {} THEN f
    ELSE LET path == CHOOSE q \in file_paths : TRUE IN
         ClassifyPaths(ClassifyPath(f, path), file_paths \ {path})

\* the assumed sampling rate: syscalls per second
SamplingRate == 100

\* the cardinalities, the estimated duration and the rates
Derive(f, st) ==
    LET Rates(f4) ==
            IF f4.vals["trace_duration_sec"] # FloatZero
            THEN SetAttr(SetAttr(f4, "syscalls_per_second",
                                 DivFloat(f4.vals["total_syscalls"],
                                          f4.vals["trace_duration_sec"])),
                         "threads_per_second",
                         DivFloat(f4.vals["num_threads_spawned"], f4.vals["trace_duration_sec"]))
            ELSE f4
        Duration(f3) ==
            Rates(SetAttr(f3, "trace_duration_sec", DivFloat(f3.vals["total_syscalls"], FloatOf(SamplingRate))))
    IN  Duration(SetAttr(SetAttr(SetAttr(f,
                "num_unique_threads", Cardinality(st.heap[st.thread_names])),
                "num_databases", Cardinality(st.heap[st.database_files])),
                "num_unique_ips", Cardinality(st.heap[st.ip_addresses])))

\* extract_features(recs, pkg) run on heap h: the vector returned and the heap left
extract_features(h, recs, pkg) ==
    LET \* what the call leaves alive: the sets the returned vector refers to
        Return(f, st) ==
            [features |-> f,
             heap |-> Collect(st.heap, (DOMAIN h) \cup {f.vals[k] : k \in SetFields})]
        \* the three transient sets of the instance are replaced by the local ones,
        \* then the classification pass and the derived values
        Finish(st) ==
            Return(Derive(
                       ClassifyPaths(
                           ClassifyThreads(
                               SetAttr(SetAttr(SetAttr(st.f,
                                   "_thread_names", st.thread_names),
                                   "_file_paths", st.file_paths),
                                   "_ip_addresses", st.ip_addresses),
                               st.heap[st.thread_names]),
                           st.heap[st.file_paths]),
                       st),
                   st)
        Loop(f0, s1, s2, s3, s4) ==
            Finish(Tally([f |-> f0, heap |-> s4.heap,
                          thread_names |-> s1.ref, file_paths |-> s2.ref,
                          ip_addresses |-> s3.ref, database_files |-> s4.ref,
                          first_ts |-> NoValue, last_ts |-> NoValue], recs, 1))
        Locals3(f0, s1, s2, s3) == Loop(f0, s1, s2, s3, NewSet(s3.heap))
        Locals2(f0, s1, s2) == Locals3(f0, s1, s2, NewSet(s2.heap))
        Locals1(f0, s1) == Locals2(f0, s1, NewSet(s1.heap))
        Body(made) ==
            IF Len(recs) = 0 THEN [features |-> made.obj, heap |-> made.heap]
            ELSE Locals1(SetAttr(made.obj, "total_syscalls", Len(recs)), NewSet(made.heap))
    IN  Body(AppFeatures(h, pkg))

(***************************************************************************)
(* The exporter's view of a vector.                                        *)
(***************************************************************************)
\* key.startswith('_')
IsPrivate(key) == StartsWith(key, "_")

IsPublic(key) == ~IsPrivate(key)

\* features_to_dict: the items of __dict__ in order, private keys skipped,
\* a bool written as 1 or 0
features_to_dict(f) ==
    LET keys == SelectSeq(f.keys, IsPublic) IN
    [keys |-> keys,
     vals |-> [key \in {keys[i] : i \in 1..Len(keys)} |->
                  IF key \in BoolFields THEN (IF f.vals[key] THEN 1 ELSE 0)
                  ELSE f.vals[key]]]

\* get_feature_columns: the public keys of a default AppFeatures, in order
get_feature_columns == SelectSeq(AppFeatures(<< >>, "").obj.keys, IsPublic)

(***************************************************************************)
(* Inputs of extract_features.                                             *)
(***************************************************************************)
Rec(syscall, comm, path) ==
    [SyscallRecord EXCEPT !.syscall = syscall, !.comm = comm, !.path = path]

RecordPool ==
    { [Rec("read", "OkHttp TaskRunner", "") EXCEPT !.count = 16, !.actual = 4, !.timestamp = "1700000001.5"],
      [Rec("read", "", "") EXCEPT !.count = 7, !.actual = 7],
      [Rec("write", "RxCachedThreadScheduler-1", "/data/app/cache/okhttp/journal")
           EXCEPT !.actual = 5],
      Rec("openat", "arch_disk_io_0", "/data/app/databases/app.db"),
      Rec("openat", "DefaultDispatcher-worker-1", "/data/app/databases/app.db-wal"),
      [Rec("fstat", "", "/data/app/databases/other.db")
           EXCEPT !.actual = 9, !.family = "ipv4", !.ip = "10.0.0.1", !.port = 443,
                  !.clone_type = "thread", !.timestamp = "1700000009.0"],
      [Rec("connect", "OkHttp Dispatcher", "")
           EXCEPT !.family = "ipv4", !.ip = "10.0.0.1", !.port = 443],
      [Rec("connect", "", "") EXCEPT !.family = "ipv6", !.ip = "::1", !.port = 80],
      [Rec("socket", "pool-1-thread-2", "") EXCEPT !.family = "ipv4"],
      [Rec("socket", "binder:123_1", "") EXCEPT !.family = "unix"],
      [Rec("socket", "", "") EXCEPT !.family = "ipv6"],
      Rec("socket", "", ""),
      [Rec("clone", "glide-source-thread-1",
           "/data/app/cache/image_manager_disk_cache/journal")
           EXCEPT !.clone_type = "thread"],
      Rec("mmap", "RenderThread", "/data/app/lib/libfoo.so"),
      Rec("close", "WM.task-1", "/data/app/shared_prefs/settings.xml"),
      Rec("open", "androidx.work-1", "/data/app/files/datastore/user.preferences_pb"),
      Rec("openat", "glide-disk-cache-1", "/data/app/databases/app.db-shm"),
      Rec("openat", "coil-worker", "/data/app/databases/app.db-journal"),
      Rec("openat", "FrescoIoBoundExecutor-1", "/data/app/no_backup/androidx.work.workdb"),
      Rec("read", "ExoPlayer:Playback", "/data/app/cache/okHttpCache/e1"),
      [Rec("write", "DartWorker", "/data/app/cache/coil3_disk_cache/journal")
           EXCEPT !.actual = -1],
      Rec("close", "AsyncTask #1", "/data/app/cache/imagepipeline/v2"),
      Rec("openat", "main", "/system/etc/cacerts/a1b2.0"),
      Rec("openat", "", "/data/app/cache/HTTP Cache/index"),
      Rec("clone", "", "/data/app/files/data.sqlite") }

Packages == {"", "com.example.app"}

SeqsUpTo(S, n) == UNION { [1..k -> S] : k \in 0..n }

(***************************************************************************)
(* One call of extract_features.                                           *)
(***************************************************************************)
Init ==
    /\ records \in SeqsUpTo(RecordPool, MaxRecords)
    /\ package \in Packages
    /\ features = NoValue
    /\ heap = << >>
    /\ probe = << >> /\ first = NoValue /\ last = NoValue /\ ncalls = 0
    /\ log_lines = << >> /\ parsed = NoValue
    /\ dir = << >> /\ out_before = NoValue /\ output_csv = NoValue
    /\ trace_files = << >> /\ todo = << >> /\ all_features = << >>
    /\ stdout = << >> /\ pc = "idle"

Extract ==
    /\ features = NoValue
    /\ LET Returned(call) ==
                /\ features' = call.features
                /\ heap' = call.heap
       IN  Returned(extract_features(heap, records, package))
    /\ UNCHANGED << records, package, purityVars, parseVars, batchVars >>

Next == Extract

Spec == Init /\ [][Next]_vars

\* the working sets of a vector, read through its references
Deref(h, f) == [k \in SetFields |-> h[f.vals[k]]]

(***************************************************************************)
(* Properties of one extract_features call.                                *)
(***************************************************************************)
Called == features # NoValue

Val(key) == features.vals[key]

ThreadNamesOf(recs) == { recs[i].comm : i \in 1..Len(recs) } \ {""}
PathsOf(recs) == { recs[i].path : i \in 1..Len(recs) } \ {""}

\* C1: for every record sequence and package, the keys of
\* features_to_dict(extract_features(records, package)) are get_feature_columns(),
\* element by element in the same order, and none of them is a transient working set.
C1_ExportedKeysAreColumns ==
    Called =>
        /\ features_to_dict(features).keys = get_feature_columns
        /\ \A i \in 1..Len(features_to_dict(features).keys) :
               features_to_dict(features).keys[i]
                   \notin {"_thread_names", "_file_paths", "_ip_addresses"}

C1_Witness ==
    /\ Called
    /\ Len(records) = MaxRecords
    /\ package # ""
    /\ Val("num_unique_threads") > 0
    /\ Len(features_to_dict(features).keys) = 60

\* C5: extract_features on an empty record sequence returns a vector whose
\* counters, cardinalities and rates are all zero and whose flags are all false.
C5_EmptyTraceAllZero ==
    (Called /\ records = << >>) =>
        /\ \A key \in IntFields : Val(key) = 0
        /\ \A key \in FloatFields : Val(key) = FloatZero
        /\ \A key \in BoolFields : Val(key) = FALSE
        /\ \A key \in SetFields : heap[Val(key)] = {}

C5_Witness == Called /\ records = << >> /\ Val("package") = "com.example.app"

RECURSIVE SumActual(_, _, _)
SumActual(recs, name, i) ==
    IF i > Len(recs) THEN 0
    ELSE (IF recs[i].syscall = name THEN recs[i].actual ELSE 0) + SumActual(recs, name, i + 1)

\* C6: total_bytes_read is the sum of `actual` over exactly the 'read' records and
\* total_bytes_written the sum of `actual` over exactly the 'write' records; records
\* of any other syscall change neither.
C6_ByteTotals ==
    Called =>
        /\ Val("total_bytes_read") = SumActual(records, "read", 1)
        /\ Val("total_bytes_written") = SumActual(records, "write", 1)

\* N read records with actual = K and a record of another syscall carrying bytes
C6_Witness ==
    /\ Called
    /\ Len(records) = MaxRecords
    /\ \A i \in 1..Len(records) : records[i].syscall = "read" /\ records[i].actual = 4
    /\ Val("total_bytes_read") = MaxRecords * 4
    /\ Val("total_bytes_written") = 0

\* the category each thread flag of the vector is named after
ThreadFlagCategory ==
    [ has_okhttp_thread |-> "okhttp", has_okhttp_task_thread |-> "okhttp_task",
      has_rxjava_thread |-> "rxjava", has_rxjava_cached_thread |-> "rxjava_cached",
      has_coroutine_thread |-> "coroutines", has_workmanager_thread |-> "workmanager",
      has_workmanager_alt_thread |-> "workmanager_alt", has_room_io_thread |-> "room_io",
      has_glide_thread |-> "glide", has_glide_source_thread |-> "glide_source",
      has_glide_disk_thread |-> "glide_disk", has_coil_thread |-> "coil",
      has_fresco_thread |-> "fresco", has_exoplayer_thread |-> "exoplayer",
      has_flutter_thread |-> "flutter", has_async_task_thread |-> "async_task" ]

\* the category each path flag and each path count of the vector is named after
PathAttrCategory ==
    [ has_room_wal |-> "room_wal", has_room_shm |-> "room_shm",
      has_room_journal |-> "room_journal", has_workmanager_db |-> "workmanager_db",
      has_datastore |-> "datastore", has_okhttp_cache |-> "okhttp_cache",
      has_okhttp_cache_dir |-> "okhttp_cache_dir", has_okhttp_journal |-> "okhttp_journal",
      has_glide_cache |-> "glide_cache", has_glide_journal |-> "glide_journal",
      has_coil_cache |-> "coil_cache", has_coil_cache_v3 |-> "coil_cache_v3",
      has_coil_journal |-> "coil_journal", has_fresco_cache |-> "fresco_cache",
      has_cacerts_access |-> "cacerts", has_http_cache |-> "http_cache",
      num_shared_prefs |-> "shared_prefs", num_native_libs |-> "native_lib" ]

ThreadFlagNames == DOMAIN ThreadFlagCategory
PathFlagNames == (DOMAIN PathAttrCategory) \cap BoolFields
ConnectFlagNames == {"has_ipv4_connect", "has_ipv6_connect"}

HasConnect(recs, family) ==
    \E i \in 1..Len(recs) : recs[i].syscall = "connect" /\ recs[i].family = family

\* the thread flags are exactly those whose recognizer matches the one name t
ThreadFlagsExactly(t) ==
    \A flag \in ThreadFlagNames : Val(flag) = ThreadMatch(ThreadFlagCategory[flag], t)

\* C9 as claimed: for a trace whose only distinct thread name is t and that has no
\* paths, the thread flags set are exactly those whose recognizer matches t, and no
\* other boolean flag is true.
C9_OnlyMatchingFlagsTrue ==
    \A t \in ThreadNamesOf(records) :
        (Called /\ ThreadNamesOf(records) = {t} /\ PathsOf(records) = {}) =>
            /\ ThreadFlagsExactly(t)
            /\ \A flag \in BoolFields \ ThreadFlagNames : Val(flag) = FALSE

\* C9 as amended: for a trace whose only distinct thread name is t and that has no
\* paths, the thread flags set are exactly those whose recognizer matches t and no
\* path flag is true; has_ipv4_connect and has_ipv6_connect do not depend on the
\* name: each is true exactly when the trace holds a connect record of that family.
C9_OnlyMatchingThreadFlags ==
    \A t \in ThreadNamesOf(records) :
        (Called /\ ThreadNamesOf(records) = {t} /\ PathsOf(records) = {}) =>
            /\ ThreadFlagsExactly(t)
            /\ \A flag \in PathFlagNames : Val(flag) = FALSE
            /\ Val("has_ipv4_connect") = HasConnect(records, "ipv4")
            /\ Val("has_ipv6_connect") = HasConnect(records, "ipv6")
            /\ BoolFields = ThreadFlagNames \cup PathFlagNames \cup ConnectFlagNames

C9_Witness ==
    /\ Called
    /\ ThreadNamesOf(records) = {"OkHttp Dispatcher"}
    /\ PathsOf(records) = {}
    /\ Val("has_okhttp_thread")
    /\ ~Val("has_okhttp_task_thread")
    /\ \A flag \in ThreadFlagNames \ {"has_okhttp_thread"} : ~Val(flag)

\* the attributes of the vector that reflect a match of a table category
ReflectedBy(cat) ==
    { a \in DOMAIN ThreadFlagCategory : ThreadFlagCategory[a] = cat }
        \cup { a \in DOMAIN PathAttrCategory : PathAttrCategory[a] = cat }
        \cup (IF cat = "database" THEN {"num_databases"} ELSE {})

Reflected(a) == IF a \in BoolFields THEN Val(a) = TRUE ELSE Val(a) >= 1

PurityPool ==
    { r \in RecordPool : r.comm \in {"arch_disk_io_0", "OkHttp Dispatcher"} }

RefsOf(f) == { f.vals[k] : k \in SetFields }

InitPurity ==
    /\ probe \in SeqsUpTo(PurityPool, MaxRecords)
    /\ package \in Packages
    /\ first = NoValue /\ last = NoValue /\ ncalls = 0
    /\ heap = << >>
    /\ records = << >> /\ features = NoValue
    /\ log_lines = << >> /\ parsed = NoValue
    /\ dir = << >> /\ out_before = NoValue /\ output_csv = NoValue
    /\ trace_files = << >> /\ todo = << >> /\ all_features = << >>
    /\ stdout = << >> /\ pc = "idle"

\* result = extract_features(recs, package); the vector held before is dropped
CallExtract(recs) ==
    /\ ncalls < MaxCalls
    /\ LET Held(call, kept) ==
                /\ first' = kept
                /\ last' = [none |-> FALSE, call |-> ncalls + 1, records |-> recs,
                            features |-> call.features]
                /\ heap' = Collect(call.heap,
                                   RefsOf(call.features)
                                       \cup (IF kept = NoValue THEN {}
                                             ELSE RefsOf(kept.features)))
           Returned(call) ==
                Held(call, IF first = NoValue /\ recs = probe
                           THEN [none |-> FALSE, call |-> ncalls + 1,
                                 features |-> call.features,
                                 sets |-> Deref(call.heap, call.features)]
                           ELSE first)
       IN  Returned(extract_features(heap, recs, package))
    /\ ncalls' = ncalls + 1
    /\ UNCHANGED << probe, extractVars, parseVars, batchVars >>

NextPurity == \E recs \in SeqsUpTo(PurityPool, MaxRecords) : CallExtract(recs)

SpecPurity == InitPurity /\ [][NextPurity]_vars

\* AppFeatures.__eq__ of the dataclass: field by field, the sets by their elements
SameVector(h, f, g) ==
    /\ \A k \in (DOMAIN f.vals) \ SetFields : f.vals[k] = g.vals[k]
    /\ Deref(h, f) = Deref(h, g)

\* C4: two extract_features calls on the same record sequence and package return
\* equal vectors whatever calls on other sequences came before or in between, and
\* the working sets of one call are new: no other call's vector refers to them or
\* sees them change.
C4_Pure ==
    /\ (first # NoValue) =>
           /\ Deref(heap, first.features) = first.sets
           /\ (last.call # first.call) => RefsOf(last.features) \cap RefsOf(first.features) = {}
    /\ (first # NoValue /\ last.records = probe) =>
           SameVector(heap, first.features, last.features)

\* a later call on probe, after a call on another sequence with other names
C4_Witness ==
    /\ first # NoValue
    /\ probe # << >>
    /\ last.records = probe
    /\ last.call = MaxCalls
    /\ first.call = 1
    /\ first.sets["_thread_names"] # {}
    /\ first.features.vals["num_unique_threads"] = 1

(***************************************************************************)
(* parse_syscall_line and parse_syscall_log.                               *)
(***************************************************************************)
Letters ==
    {"a", "b", "c", "d", "e", "f", "g", "h", "i", "j", "k", "l", "m",
     "n", "o", "p", "q", "r", "s", "t", "u", "v", "w", "x", "y", "z",
     "A", "B", "C", "D", "E", "F", "G", "H", "I", "J", "K", "L", "M",
     "N", "O", "P", "Q", "R", "S", "T", "U", "V", "W", "X", "Y", "Z"}

\* re: \w
IsWord(c) == c \in Letters \cup Digits \cup {"_"}

\* re: \s, and the characters str.strip() removes
IsSpace(c) == c \in {" ", "\t", "\n", "\r", "\f"}

\* line.strip() is empty
IsBlank(line) == \A i \in 1..Len(line) : IsSpace(Char(line, i))

\* \w+ from i: the end of the longest run of word characters that starts at i
WordEnd(s, i) ==
    CHOOSE j \in i..Len(s) :
        /\ \A k \in i..j : IsWord(Char(s, k))
        /\ (j = Len(s) \/ ~IsWord(Char(s, j + 1)))

\* \S+ from i: the end of the longest run of non-blank characters that starts at i
NonSpaceEnd(s, i) ==
    CHOOSE j \in i..Len(s) :
        /\ \A k \in i..j : ~IsSpace(Char(s, k))
        /\ (j = Len(s) \/ IsSpace(Char(s, j + 1)))

\* the pattern (\w+)=("([^"]*)"|(\S+)) tried at position i: \w+ must run up to
\* an '='; the value is the text up to the next quote when it opens with a quote
\* that is closed, and the run of non-blank characters otherwise
MatchAt(s, i) ==
    IF i > Len(s) \/ ~IsWord(Char(s, i)) THEN [ok |-> FALSE]
    ELSE
    LET Quoted(j, v, k) ==
            [ok |-> TRUE, key |-> SubSeq(s, i, j), value |-> SubSeq(s, v + 1, k - 1), end |-> k]
        Bare(j, v, k) ==
            [ok |-> TRUE, key |-> SubSeq(s, i, j), value |-> SubSeq(s, v, k), end |-> k]
        Value(j, v) ==
            IF ~At(s, j + 1, "=") \/ v > Len(s) THEN [ok |-> FALSE]
            ELSE IF Char(s, v) = "\"" /\ \E k \in (v + 1)..Len(s) : Char(s, k) = "\""
            THEN Quoted(j, v, CHOOSE q \in (v + 1)..Len(s) :
                                 Char(s, q) = "\"" /\ \A m \in (v + 1)..(q - 1) : Char(s, m) # "\"")
            ELSE IF IsSpace(Char(s, v)) THEN [ok |-> FALSE]
            ELSE Bare(j, v, NonSpaceEnd(s, v))
        Key(j) == Value(j, j + 2)
    IN  Key(WordEnd(s, i))

\* re.finditer(pattern, line): the leftmost match from position p on, then the
\* matches after its end
RECURSIVE FindIter(_, _)
FindIter(s, p) ==
    LET Found(m) == << [key |-> m.key, value |-> m.value] >> \o FindIter(s, m.end + 1)
    IN  IF \A i \in p..Len(s) : ~MatchAt(s, i).ok THEN << >>
        ELSE Found(MatchAt(s, CHOOSE a \in p..Len(s) :
                                 /\ MatchAt(s, a).ok
                                 /\ \A b \in p..(a - 1) : ~MatchAt(s, b).ok))

\* the text int() converts: blanks stripped, an optional sign, digits that single
\* underscores may separate
IntBody(v) ==
    LET Stripped(nonblank) ==
            IF nonblank = {} THEN ""
            ELSE SubSeq(v, CHOOSE a \in nonblank : \A b \in nonblank : a <= b,
                           CHOOSE a \in nonblank : \A b \in nonblank : a >= b)
    IN  Stripped({ i \in 1..Len(v) : ~IsSpace(Char(v, i)) })

IntDigits(v) ==
    LET Unsigned(b) ==
            IF Len(b) > 0 /\ Char(b, 1) \in {"+", "-"} THEN SubSeq(b, 2, Len(b)) ELSE b
    IN  Unsigned(IntBody(v))

\* int(v) does not raise ValueError
IsIntLiteral(v) ==
    LET Accepted(d) ==
            /\ Len(d) > 0
            /\ Char(d, 1) \in Digits
            /\ Char(d, Len(d)) \in Digits
            /\ \A i \in 1..Len(d) : Char(d, i) \in Digits \cup {"_"}
            /\ \A i \in 1..(Len(d) - 1) : ~(Char(d, i) = "_" /\ Char(d, i + 1) = "_")
    IN  Accepted(IntDigits(v))

DigitValue(c) ==
    CASE c = "0" -> 0 [] c = "1" -> 1 [] c = "2" -> 2 [] c = "3" -> 3 [] c = "4" -> 4
      [] c = "5" -> 5 [] c = "6" -> 6 [] c = "7" -> 7 [] c = "8" -> 8 [] c = "9" -> 9

RECURSIVE DigitsValue(_, _, _)
DigitsValue(d, i, acc) ==
    IF i > Len(d) THEN acc
    ELSE IF Char(d, i) = "_" THEN DigitsValue(d, i + 1, acc)
    ELSE DigitsValue(d, i + 1, acc * 10 + DigitValue(Char(d, i)))

\* int(v), for a v that int() accepts
IntValue(v) ==
    IF Len(IntBody(v)) > 0 /\ Char(IntBody(v), 1) = "-"
    THEN 0 - DigitsValue(IntDigits(v), 1, 0)
    ELSE DigitsValue(IntDigits(v), 1, 0)

\* the keys stored with int(value), and the keys stored as they are
IntKeys == {"pid", "tid", "uid", "fd", "count", "actual", "port", "child_pid"}

StrKeyField ==
    [ ts |-> "timestamp", syscall |-> "syscall", comm |-> "comm", path |-> "path",
      flags |-> "flags", family |-> "family", ip |-> "ip", type |-> "clone_type",
      prot |-> "prot" ]

\* one turn of the if/elif chain over `key`; int() of a value that is no integer
\* raises ValueError
StoreField(record, key, value) ==
    IF key \in IntKeys
    THEN IF IsIntLiteral(value)
         THEN [raised |-> FALSE, record |-> [record EXCEPT ![key] = IntValue(value)]]
         ELSE [raised |-> TRUE, error |-> "ValueError"]
    ELSE IF key \in DOMAIN StrKeyField
    THEN [raised |-> FALSE, record |-> [record EXCEPT ![StrKeyField[key]] = value]]
    ELSE [raised |-> FALSE, record |-> record]

RECURSIVE StoreFields(_, _, _)
StoreFields(record, matches, i) ==
    IF i > Len(matches) THEN [raised |-> FALSE, record |-> record]
    ELSE LET Then(stored) ==
                 IF stored.raised THEN stored
                 ELSE StoreFields(stored.record, matches, i + 1)
         IN  Then(StoreField(record, matches[i].key, matches[i].value))

\* parse_syscall_line(line): a record, None (NoValue), or ValueError raised
parse_syscall_line(line) ==
    IF IsBlank(line) \/ StartsWith(line, "#") THEN [raised |-> FALSE, record |-> NoValue]
    ELSE LET Return(stored) ==
                 IF stored.raised THEN stored
                 ELSE IF stored.record.syscall # "" THEN stored
                 ELSE [raised |-> FALSE, record |-> NoValue]
         IN  Return(StoreFields([SyscallRecord EXCEPT !.raw_line = line],
                                FindIter(line, 1), 1))

\* the loop `for line in f` of parse_syscall_log; an exception ends it
RECURSIVE ParseLines(_, _, _)
ParseLines(lines, recs, i) ==
    IF i > Len(lines) THEN [raised |-> FALSE, records |-> recs]
    ELSE LET Then(got) ==
                 IF got.raised THEN [raised |-> TRUE, error |-> got.error]
                 ELSE IF got.record # NoValue
                 THEN ParseLines(lines, Append(recs, got.record), i + 1)
                 ELSE ParseLines(lines, recs, i + 1)
         IN  Then(parse_syscall_line(lines[i]))

\* parse_syscall_log(filepath) on the file found at that path; open() of a file
\* that is missing or unreadable raises OSError
parse_syscall_log(file) ==
    IF ~file.readable THEN [raised |-> TRUE, error |-> "OSError"]
    ELSE ParseLines(file.lines, << >>, 1)

(***************************************************************************)
(* One call of parse_syscall_log on a readable file.                       *)
(***************************************************************************)
LinePool ==
    { "ts=1.5 syscall=read pid=42 comm=\"OkHttp Dispatcher\" fd=7 count=16 actual=4\n",
      "syscall=write pid=abc actual=5\n",
      "port=0x1bb syscall=connect family=ipv4 ip=10.0.0.1\n",
      "\n",
      " \t\n",
      "# syscall=read pid=1\n",
      "pid=7 comm=main\n",
      "tid=x7 comm=main\n",
      "syscall=\"\" pid=7\n",
      "foo=bar syscall=close fd=-1 zzz=\"q r\"\n",
      "syscall=openat path=\"/data/my app/app.db\" flags=O_RDONLY|O_CLOEXEC\n",
      "syscall=read count= actual=\" 1_0 \"\n",
      "syscall=clone type=thread child_pid=4251" }

InitParse ==
    /\ log_lines \in SeqsUpTo(LinePool, MaxLines)
    /\ parsed = NoValue
    /\ records = << >> /\ package = "" /\ features = NoValue
    /\ heap = << >>
    /\ probe = << >> /\ first = NoValue /\ last = NoValue /\ ncalls = 0
    /\ dir = << >> /\ out_before = NoValue /\ output_csv = NoValue
    /\ trace_files = << >> /\ todo = << >> /\ all_features = << >>
    /\ stdout = << >> /\ pc = "idle"

ParseLog ==
    /\ parsed = NoValue
    /\ parsed' = parse_syscall_log([readable |-> TRUE, lines |-> log_lines])
    /\ UNCHANGED << log_lines, extractVars, heap, purityVars, batchVars >>

NextParse == ParseLog

SpecParse == InitParse /\ [][NextParse]_vars

\* the key=value tokens of a data line
TokensOf(line) == FindIter(line, 1)

IsDataLine(line) == ~IsBlank(line) /\ ~StartsWith(line, "#")

\* the numeric keys of a line whose value is not an integer
MalformedKeys(line) ==
    { TokensOf(line)[i].key : i \in { j \in 1..Len(TokensOf(line)) :
          /\ TokensOf(line)[j].key \in IntKeys
          /\ ~IsIntLiteral(TokensOf(line)[j].value) } }

HasSyscallName(line) ==
    \E i \in 1..Len(TokensOf(line)) :
        TokensOf(line)[i].key = "syscall" /\ TokensOf(line)[i].value # ""

\* C2: when a line has a numeric field whose value is not an integer, the field is
\* left at its default, the line still yields a record if it names a syscall, and
\* parse_syscall_log goes on with the following lines instead of aborting.
C2_MalformedFieldTolerated ==
    parsed # NoValue =>
        \A i \in 1..Len(log_lines) :
            (IsDataLine(log_lines[i]) /\ MalformedKeys(log_lines[i]) # {}) =>
                /\ ~parsed.raised
                /\ HasSyscallName(log_lines[i]) =>
                       \E k \in 1..Len(parsed.records) :
                           /\ parsed.records[k].raw_line = log_lines[i]
                           /\ \A key \in MalformedKeys(log_lines[i]) :
                                  parsed.records[k][key] = SyscallRecord[key]
                /\ \A j \in (i + 1)..Len(log_lines) :
                       HasSyscallName(log_lines[j]) /\ IsDataLine(log_lines[j]) =>
                           \E k \in 1..Len(parsed.records) :
                               parsed.records[k].raw_line = log_lines[j]

(***************************************************************************)
(* process_trace_file and process_all_traces.                              *)
(***************************************************************************)
\* the first place at or after i where old occurs in s, 0 if there is none
FindFrom(s, old, i) ==
    LET hits == { k \in i..Len(s) : At(s, k, old) } IN
    IF hits = {} THEN 0 ELSE CHOOSE a \in hits : \A b \in hits : a <= b

\* s.replace(old, new): every occurrence, found from left to right
RECURSIVE ReplaceFrom(_, _, _, _)
ReplaceFrom(s, old, new, i) ==
    LET k == FindFrom(s, old, i) IN
    IF k = 0 THEN SubSeq(s, i, Len(s))
    ELSE SubSeq(s, i, k - 1) \o new \o ReplaceFrom(s, old, new, k + Len(old))

Replace(s, old, new) == ReplaceFrom(s, old, new, 1)

\* the package process_trace_file takes from the file name when it is given none
PackageOfName(filename) == Replace(Replace(filename, ".syscall.log", ""), ".log", "")

\* process_trace_file(trace_path) with the default package, run on heap h
process_trace_file(h, filename, file) ==
    LET Extracted(log) ==
            IF log.raised THEN [raised |-> TRUE, error |-> log.error]
            ELSE [raised |-> FALSE,
                  features |-> extract_features(h, log.records, PackageOfName(filename)).features]
    IN  Extracted(parse_syscall_log(file))

\* the characters of file names, in code point order
CodePoints == "-.0123456789ABCDEFGHIJKLMNOPQRSTUVWXYZ_abcdefghijklmnopqrstuvwxyz"

Ord(c) == CHOOSE i \in 1..Len(CodePoints) : Char(CodePoints, i) = c

\* a < b for two str
StrLess(a, b) ==
    \E i \in 1..(Len(a) + 1) :
        /\ i <= Len(b)
        /\ SubSeq(a, 1, i - 1) = SubSeq(b, 1, i - 1)
        /\ (i = Len(a) + 1 \/ Ord(Char(a, i)) < Ord(Char(b, i)))

\* sorted(names) for a list of distinct names of one directory
RECURSIVE Sorted(_)
Sorted(names) ==
    IF Len(names) = 0 THEN << >>
    ELSE LET k == CHOOSE a \in 1..Len(names) :
                      \A b \in 1..Len(names) : a = b \/ StrLess(names[a], names[b])
         IN  << names[k] >> \o Sorted(SelectSeq(names, LAMBDA n : n # names[k]))

\* Path(trace_dir).glob('*.log'): the names that end in .log
Globbed(d) == { n \in DOMAIN d : EndsWith(n, ".log") }

Orders(S) == { q \in [1..Cardinality(S) -> S] : \A n \in S : \E i \in DOMAIN q : q[i] = n }

\* csv.DictWriter(f, fieldnames=columns): a row's cells in column order; a key
\* that is no column makes writerows raise ValueError
RowCells(columns, row) == [i \in 1..Len(columns) |-> row.vals[columns[i]]]

RowFits(columns, row) ==
    \A i \in 1..Len(row.keys) : \E j \in 1..Len(columns) : columns[j] = row.keys[i]

\* the rows written before writerows stops: all of them, or those before the
\* first row that does not fit
RowsWritten(columns, rows) ==
    LET bad == { i \in 1..Len(rows) : ~RowFits(columns, rows[i]) }
        n == IF bad = {} THEN Len(rows) ELSE (CHOOSE a \in bad : \A b \in bad : a <= b) - 1
    IN  [i \in 1..n |-> RowCells(columns, rows[i])]

(***************************************************************************)
(* One run of process_all_traces(trace_dir, output_csv).                   *)
(***************************************************************************)
NamePool == {"b.log", "a.log", "c.syscall.log", "d.log.log", "notes.txt"}

GoodTrace ==
    [readable |-> TRUE,
     lines |-> << "ts=1.5 syscall=read pid=42 comm=\"OkHttp Dispatcher\" fd=7 count=16 actual=4\n",
                  "syscall=openat path=\"/data/my app/app.db\" flags=O_RDONLY|O_CLOEXEC\n" >>]

EmptyTrace == [readable |-> TRUE, lines |-> << >>]

BadFieldTrace ==
    [readable |-> TRUE,
     lines |-> << "syscall=write pid=abc actual=5\n",
                  "syscall=clone type=thread child_pid=4251" >>]

UnreadableTrace == [readable |-> FALSE, lines |-> << >>]

FilePool == {GoodTrace, EmptyTrace, BadFieldTrace, UnreadableTrace}

Dirs == UNION { [S -> FilePool] : S \in { T \in SUBSET NamePool : Cardinality(T) <= MaxFiles } }

\* an output file left by an earlier run
OldCsv == [header |-> << "package" >>, rows |-> << << "old" >> >>]

InitBatch ==
    /\ dir \in Dirs
    /\ out_before \in {NoValue, OldCsv}
    /\ output_csv = out_before
    /\ trace_files = << >> /\ todo = << >> /\ all_features = << >>
    /\ stdout = << >>
    /\ pc = "start"
    /\ records = << >> /\ package = "" /\ features = NoValue
    /\ heap = << >>
    /\ probe = << >> /\ first = NoValue /\ last = NoValue /\ ncalls = 0
    /\ log_lines = << >> /\ parsed = NoValue

\* a mutant of AfterGlob: the function goes on when glob found nothing
AfterGlobNoReturn(files) == "loop"

\* `if not trace_files: print(...); return`
AfterGlob(files) == IF Len(files) = 0 THEN "done" ELSE "loop"

\* trace_files = list(Path(trace_dir).glob('*.log')), in the order the file
\* system enumerates them, up to the start of the loop over sorted(trace_files)
ListTraces ==
    /\ pc = "start"
    /\ \E order \in Orders(Globbed(dir)) :
        LET Branch(next) ==
                /\ pc' = next
                /\ stdout' = IF next = "done"
                             THEN Append(stdout, << "No trace files found" >>)
                             ELSE Append(stdout, << "Processing trace files", Len(order) >>)
                /\ todo' = IF next = "done" THEN << >> ELSE Sorted(order)
        IN  /\ trace_files' = order
            /\ Branch(AfterGlob(order))
    /\ UNCHANGED << dir, out_before, output_csv, all_features,
                    extractVars, heap, purityVars, parseVars >>

\* a mutant of ProcessNext: the output file is rewritten in every turn of the
\* loop with the rows gathered so far
ProcessNextWriting ==
    /\ pc = "loop"
    /\ todo # << >>
    /\ LET Returned(got) ==
                /\ stdout' = Append(stdout, << "Processing", Head(todo) >>)
                /\ output_csv' = [header |-> get_feature_columns,
                                  rows |-> RowsWritten(get_feature_columns, all_features)]
                /\ IF got.raised
                   THEN /\ pc' = "raised"
                        /\ UNCHANGED << all_features, todo >>
                   ELSE /\ all_features' = Append(all_features, features_to_dict(got.features))
                        /\ todo' = Tail(todo)
                        /\ pc' = "loop"
       IN  Returned(process_trace_file(heap, Head(todo), dir[Head(todo)]))
    /\ UNCHANGED << dir, out_before, trace_files,
                    extractVars, heap, purityVars, parseVars >>

\* one turn of `for trace_path in sorted(trace_files)`; an exception raised by
\* process_trace_file leaves process_all_traces
ProcessNext ==
    /\ pc = "loop"
    /\ todo # << >>
    /\ LET Returned(got) ==
                /\ stdout' = Append(stdout, << "Processing", Head(todo) >>)
                /\ IF got.raised
                   THEN /\ pc' = "raised"
                        /\ UNCHANGED << all_features, todo >>
                   ELSE /\ all_features' = Append(all_features, features_to_dict(got.features))
                        /\ todo' = Tail(todo)
                        /\ pc' = "loop"
       IN  Returned(process_trace_file(heap, Head(todo), dir[Head(todo)]))
    /\ UNCHANGED << dir, out_before, output_csv, trace_files,
                    extractVars, heap, purityVars, parseVars >>

\* the rest of the function: the output file is opened for writing, the header
\* and the rows are written
WriteCsv ==
    /\ pc = "loop"
    /\ todo = << >>
    /\ LET Written(columns, written) ==
                /\ output_csv' = [header |-> columns, rows |-> written]
                /\ IF Len(written) = Len(all_features)
                   THEN /\ stdout' = Append(stdout, << "Total apps processed",
                                                       Len(all_features) >>)
                        /\ pc' = "done"
                   ELSE /\ stdout' = stdout
                        /\ pc' = "raised"
       IN  Written(get_feature_columns, RowsWritten(get_feature_columns, all_features))
    /\ UNCHANGED << dir, out_before, trace_files, todo, all_features,
                    extractVars, heap, purityVars, parseVars >>

NextBatch == ListTraces \/ ProcessNext \/ WriteCsv

SpecBatch == InitBatch /\ [][NextBatch]_vars

(***************************************************************************)
(* Properties of one process_all_traces run.                               *)
(***************************************************************************)
\* the function has returned, or an exception has left it
Ended == pc \in {"done", "raised"}

\* the package column of the rows of an output file
RowPackages(csv) == [i \in 1..Len(csv.rows) |-> csv.rows[i][1]]

\* the output file holds what this run wrote
WrittenByRun == pc = "done" /\ output_csv # NoValue /\ output_csv.header = get_feature_columns

\* every numeric field of every data line of the file is an integer
WellFormed(file) ==
    \A i \in 1..Len(file.lines) :
        IsDataLine(file.lines[i]) => MalformedKeys(file.lines[i]) = {}

\* C3: a trace file that is missing or unreadable is skipped and the batch
\* continues: the run does not abort, and every readable trace file of the
\* directory has its row in the output.  (Stated for directories whose readable
\* files are well-formed, so that only unreadable files are at stake.)
C3_UnreadableFileSkipped ==
    (Ended /\ Globbed(dir) # {}
           /\ \A n \in Globbed(dir) : dir[n].readable => WellFormed(dir[n])) =>
        /\ pc = "done"
        /\ WrittenByRun
        /\ \A n \in Globbed(dir) :
               dir[n].readable =>
                   \E i \in 1..Len(output_csv.rows) :
                       RowPackages(output_csv)[i] = PackageOfName(n)

\* C7: the run writes exactly one data row per trace file found in the
\* directory, in ascending file-name order whatever order the files were
\* enumerated in.
C7_OneRowPerFileSorted ==
    (Ended /\ Globbed(dir) # {}) =>
        /\ WrittenByRun
        /\ Len(output_csv.rows) = Cardinality(Globbed(dir))
        /\ \A i \in 1..Len(output_csv.rows) :
               RowPackages(output_csv)[i] = PackageOfName(Sorted(trace_files)[i])
        /\ \A i \in 1..(Len(output_csv.rows) - 1) :
               StrLess(Sorted(trace_files)[i], Sorted(trace_files)[i + 1])

\* What process_all_traces does when no file raises: one row per trace file, in
\* ascending file-name order whatever the enumeration order.
SortedRowsWhenNothingRaises ==
    (Ended /\ Globbed(dir) # {}
           /\ \A n \in Globbed(dir) : dir[n].readable /\ WellFormed(dir[n])) =>
        /\ WrittenByRun
        /\ Len(output_csv.rows) = Cardinality(Globbed(dir))
        /\ \A i \in 1..Len(output_csv.rows) :
               /\ RowPackages(output_csv)[i] = PackageOfName(Sorted(trace_files)[i])
               /\ Sorted(trace_files)[i] \in Globbed(dir)
        /\ \A i \in 1..(Len(output_csv.rows) - 1) :
               StrLess(Sorted(trace_files)[i], Sorted(trace_files)[i + 1])

\* three files enumerated in an order that is not the sorted one
SortedRowsWitness ==
    /\ WrittenByRun
    /\ Len(trace_files) = 3
    /\ trace_files[1] = "b.log"
    /\ RowPackages(output_csv) = << "a", "b", "c" >>

\* C8: when the directory holds no trace file the run reports it and writes
\* nothing: the output file is left as it was, no row is produced, and the report
\* differs from that of a batch of one all-zero row, which does write its row.
C8_NoTraceNoOutput ==
    /\ (pc # "start" /\ Globbed(dir) = {}) =>
           /\ pc = "done"
           /\ output_csv = out_before
           /\ all_features = << >>
           /\ stdout = << << "No trace files found" >> >>
    /\ (pc = "done" /\ Globbed(dir) # {}) =>
           /\ WrittenByRun
           /\ Len(output_csv.rows) >= 1
           /\ \A i \in 1..Len(stdout) : stdout[i] # << "No trace files found" >>
           /\ stdout[Len(stdout)] = << "Total apps processed", Len(output_csv.rows) >>

\* a directory with files, none of them a trace, and an output file of an earlier run
C8_Witness ==
    /\ pc = "done"
    /\ DOMAIN dir = {"notes.txt"}
    /\ out_before = OldCsv
    /\ output_csv = OldCsv
    /\ stdout = << << "No trace files found" >> >>

(***************************************************************************)
(* When the output file is written.                                        *)
(***************************************************************************)
IsProcessing(message) == message[1] = "Processing"

\* the file names of the 'Processing: <name>' messages, in the order printed
ProcessingNames(out) ==
    LET Names(lines) == [i \in 1..Len(lines) |-> lines[i][2]]
    IN  Names(SelectSeq(out, IsProcessing))

\* C19: the files are processed one after another in sorted order, the output
\* file is written only after every trace file has been parsed and
\* aggregated, and a run in which processing a trace file fails leaves the
\* output file as it was: not created, not modified
C19_OutputAfterAllFiles ==
    LET InOrder(sorted, names) ==
            /\ pc # "start" =>
                   /\ names = SubSeq(sorted, 1, Len(names))
                   /\ Len(all_features) + Len(todo) = Len(trace_files)
                   /\ todo = SubSeq(sorted, Len(all_features) + 1, Len(trace_files))
            /\ output_csv # out_before =>
                   /\ todo = << >>
                   /\ Len(all_features) = Len(trace_files)
                   /\ names = sorted
    IN  /\ InOrder(Sorted(trace_files), ProcessingNames(stdout))
        /\ pc = "loop" => output_csv = out_before
        /\ (pc = "raised" /\ todo # << >>) => output_csv = out_before

\* a run that aggregated one file, failed on the next and left the old
\* output file as it was
C19_Witness ==
    /\ pc = "raised"
    /\ Len(all_features) = 1
    /\ Len(todo) = 1
    /\ out_before = OldCsv
    /\ output_csv = OldCsv

(***************************************************************************)
(* Further properties of one extract_features call.                        *)
(***************************************************************************)
\* the sequence without its i-th element
Without(recs, i) == [k \in 1..(Len(recs) - 1) |-> IF k < i THEN recs[k] ELSE recs[k + 1]]

\* the vector extract_features returns for recs and the package of the state
VectorOf(recs) == extract_features(<< >>, recs, package).features

\* C11: a record whose path ends in '.db-wal' makes has_room_wal true, and
\* num_databases, num_shared_prefs and num_native_libs have the value they have for
\* the trace without that record.
C11_WalPathFrame ==
    Called =>
        \A i \in 1..Len(records) :
            EndsWith(records[i].path, ".db-wal") =>
                /\ Val("has_room_wal") = TRUE
                /\ \A count \in {"num_databases", "num_shared_prefs", "num_native_libs"} :
                       Val(count) = VectorOf(Without(records, i)).vals[count]

\* a '.db-wal' record added to a trace that already counts a database
C11_Witness ==
    /\ Called
    /\ Len(records) = 2
    /\ records[1].path = "/data/app/databases/app.db"
    /\ records[1].syscall = "openat"
    /\ EndsWith(records[2].path, ".db-wal")
    /\ records[2].syscall = "openat"
    /\ Val("has_room_wal")
    /\ Val("num_databases") = 1

\* C12: a trace with no 'connect' record has num_network_connects = 0,
\* has_ipv4_connect = false, has_ipv6_connect = false and num_port_443_connects = 0,
\* whatever family, ip and port its records carry.
C12_NoConnectNoNetwork ==
    (Called /\ \A i \in 1..Len(records) : records[i].syscall # "connect") =>
        /\ Val("num_network_connects") = 0
        /\ Val("has_ipv4_connect") = FALSE
        /\ Val("has_ipv6_connect") = FALSE
        /\ Val("num_port_443_connects") = 0

\* records that are no connect and carry a family, an ip and the port 443
C12_Witness ==
    /\ Called
    /\ Len(records) = 2
    /\ records[1].syscall = "fstat" /\ records[1].family = "ipv4"
    /\ records[1].port = 443 /\ records[1].ip # ""
    /\ records[2].syscall = "socket" /\ records[2].family = "ipv4"
    /\ Val("num_network_connects") = 0
    /\ Val("num_tcp_sockets") = 1

(***************************************************************************)
(* Properties of parse_syscall_line, on the lines of the parsed file.      *)
(***************************************************************************)
\* the keys of the line that parse_syscall_line knows
KnownKeys == IntKeys \cup DOMAIN StrKeyField

HasUnknownKey(line) ==
    \E i \in 1..Len(TokensOf(line)) : TokensOf(line)[i].key \notin KnownKeys

\* parse_syscall_line(line) returns None
NoRecord(line) ==
    /\ ~parse_syscall_line(line).raised
    /\ parse_syscall_line(line).record = NoValue

\* C13: parse_syscall_line returns 'no record' for every blank line, every line
\* beginning with '#' and every line with no syscall token or an empty syscall
\* value; every record it returns has a non-empty syscall field; unrecognized keys
\* are ignored without error.
C13_NoRecordWithoutSyscall ==
    parsed # NoValue =>
        \A i \in 1..Len(log_lines) :
            /\ (IsBlank(log_lines[i]) \/ StartsWith(log_lines[i], "#")
                    \/ ~HasSyscallName(log_lines[i])) => NoRecord(log_lines[i])
            /\ (~parse_syscall_line(log_lines[i]).raised /\ ~NoRecord(log_lines[i])) =>
                   parse_syscall_line(log_lines[i]).record.syscall # ""
            /\ (HasUnknownKey(log_lines[i]) /\ MalformedKeys(log_lines[i]) = {}) =>
                   ~parse_syscall_line(log_lines[i]).raised

\* What parse_syscall_line does on a line none of whose numeric fields is
\* malformed: it never raises, and returns a record exactly when the line is a
\* data line whose last syscall token has a non-empty value.
NoRecordWhenNothingRaises ==
    parsed # NoValue =>
        \A i \in 1..Len(log_lines) :
            (~IsDataLine(log_lines[i]) \/ MalformedKeys(log_lines[i]) = {}) =>
                /\ ~parse_syscall_line(log_lines[i]).raised
                /\ (~IsDataLine(log_lines[i]) \/ ~HasSyscallName(log_lines[i])) =>
                       NoRecord(log_lines[i])
                /\ ~NoRecord(log_lines[i]) =>
                       parse_syscall_line(log_lines[i]).record.syscall # ""

NoRecordWitness ==
    /\ parsed # NoValue
    /\ ~parsed.raised
    /\ Len(log_lines) = 2
    /\ log_lines[1] = "# syscall=read pid=1\n"
    /\ HasUnknownKey(log_lines[2])
    /\ Len(parsed.records) = 1

(***************************************************************************)
(* Further properties of one process_all_traces run.                       *)
(***************************************************************************)
\* a file name without its known suffix: '.syscall.log', or else '.log'
StripSuffix(name) ==
    IF EndsWith(name, ".syscall.log") THEN SubSeq(name, 1, Len(name) - Len(".syscall.log"))
    ELSE IF EndsWith(name, ".log") THEN SubSeq(name, 1, Len(name) - Len(".log"))
    ELSE name

\* C14: process_trace_file called without a package gives the vector the file
\* name with its known suffix stripped: X for X.syscall.log and for X.log, also
\* when X itself contains '.log'.
C14_PackageIsNameWithoutSuffix ==
    \A i \in 1..Len(all_features) :
        all_features[i].vals["package"] = StripSuffix(Sorted(trace_files)[i])

\* What process_trace_file does: every occurrence of '.syscall.log' and then
\* every occurrence of '.log' is removed from the name, which is the name without
\* its suffix when the base name contains no '.log'.
PackageIsNameWithoutEveryLog ==
    \A i \in 1..Len(all_features) :
        /\ all_features[i].vals["package"]
               = Replace(Replace(Sorted(trace_files)[i], ".syscall.log", ""), ".log", "")
        /\ ~SearchLit(StripSuffix(Sorted(trace_files)[i]), ".log") =>
               all_features[i].vals["package"] = StripSuffix(Sorted(trace_files)[i])

PackageWitness ==
    /\ Len(all_features) = 2
    /\ Sorted(trace_files) = << "a.log", "c.syscall.log" >>
    /\ all_features[1].vals["package"] = "a"
    /\ all_features[2].vals["package"] = "c"

(***************************************************************************)
(* Duration and rates, on traces long enough for rounding to show.         *)
(***************************************************************************)
MaxRateRecords == 7

RatePool ==
    { [Rec("clone", "pool-1-thread-2", "") EXCEPT !.clone_type = "thread",
                                                   !.timestamp = "1700000009.0"],
      [Rec("read", "main", "") EXCEPT !.actual = 4, !.timestamp = "1700000001.5"] }

InitRates ==
    /\ records \in SeqsUpTo(RatePool, MaxRateRecords)
    /\ package \in Packages
    /\ features = NoValue
    /\ heap = << >>
    /\ probe = << >> /\ first = NoValue /\ last = NoValue /\ ncalls = 0
    /\ log_lines = << >> /\ parsed = NoValue
    /\ dir = << >> /\ out_before = NoValue /\ output_csv = NoValue
    /\ trace_files = << >> /\ todo = << >> /\ all_features = << >>
    /\ stdout = << >> /\ pc = "idle"

SpecRates == InitRates /\ [][Next]_vars

\* k * x for an int k below 2^7 and a float x, rounded as Python rounds it
TimesFloat(k, x) ==
    IF k = 0 \/ x = FloatZero THEN FloatZero
    ELSE RoundFloat(BigTimes(x.mant, k), x.exp, FALSE)

\* the records with their timestamps blanked
Untimed(recs) == [i \in 1..Len(recs) |-> [recs[i] EXCEPT !.timestamp = ""]]

\* x is the float nearest to n / 100, ties to the even mantissa: with
\* x = mant * 2^exp, | 100 * mant - n * 2^(-exp) | is at most 50
NearestHundredth(x, n) ==
    LET Near(gap) == /\ gap[1] = 0 /\ gap[2] = 0
                     /\ \/ gap[3] < 50
                        \/ gap[3] = 50 /\ x.mant[3] % 2 = 0
        Gap(a, b) == Near(IF BigGeq(a, b) THEN BigSub(a, b) ELSE BigSub(b, a))
    IN  IF n = 0 THEN x = FloatZero
        ELSE /\ BigBitLen(x.mant) = 53
             /\ x.exp \in -71..-48
             /\ Gap(BigTimes(x.mant, 100), << n * 2^(-x.exp - 48), 0, 0 >>)

\* x is 100.0, the float just below it or the float just above it
NearHundred(x) ==
    /\ x.exp = -46
    /\ x.mant \in { << 24, LimbBase - 1, LimbBase - 1 >>, << 25, 0, 0 >>, << 25, 0, 1 >> }

\* C15, as stated: the duration is total_syscalls / 100 whatever the
\* timestamps, the rates are the totals divided by it and zero when it is
\* zero, and in Python's arithmetic 100 * trace_duration_sec = total_syscalls
\* and threads_per_second * total_syscalls = 100 * num_threads_spawned for a
\* non-empty trace
C15_RatesExactIdentities ==
    features # NoValue =>
        /\ Val("trace_duration_sec") = DivFloat(Len(records), FloatOf(SamplingRate))
        /\ Len(records) = 0 =>
               /\ Val("syscalls_per_second") = FloatZero
               /\ Val("threads_per_second") = FloatZero
        /\ Len(records) > 0 =>
               /\ TimesFloat(100, Val("trace_duration_sec")) = FloatOf(Val("total_syscalls"))
               /\ TimesFloat(Val("total_syscalls"), Val("threads_per_second"))
                      = FloatOf(100 * Val("num_threads_spawned"))

\* C15, amended: trace_duration_sec is the float nearest to
\* total_syscalls / 100 and is the same when the timestamps are blanked;
\* the rates are the float quotients of total_syscalls and
\* num_threads_spawned by that duration, both zero when the duration is
\* zero; syscalls_per_second of a non-empty trace is 100.0 or a float next
\* to it, not always 100.0
C15_RatesAreRoundedQuotients ==
    features # NoValue =>
        /\ Val("total_syscalls") = Len(records)
        /\ NearestHundredth(Val("trace_duration_sec"), Len(records))
        /\ Val("trace_duration_sec") = VectorOf(Untimed(records)).vals["trace_duration_sec"]
        /\ Len(records) = 0 =>
               /\ Val("trace_duration_sec") = FloatZero
               /\ Val("syscalls_per_second") = FloatZero
               /\ Val("threads_per_second") = FloatZero
        /\ Len(records) > 0 =>
               /\ Val("syscalls_per_second")
                      = FloatDiv(FloatOf(Val("total_syscalls")), Val("trace_duration_sec"))
               /\ Val("threads_per_second")
                      = FloatDiv(FloatOf(Val("num_threads_spawned")), Val("trace_duration_sec"))
               /\ NearHundred(Val("syscalls_per_second"))
               /\ Val("num_threads_spawned") = 0 => Val("threads_per_second") = FloatZero

\* a trace of seven timestamped records, two of them spawning a thread:
\* 100 * 0.07 is 7.000000000000001 and 7 / 0.07 is below 100.0
C15_Witness ==
    /\ features # NoValue
    /\ Len(records) = 7
    /\ Val("num_threads_spawned") = 2
    /\ \A i \in 1..Len(records) : records[i].timestamp # ""
    /\ TimesFloat(100, Val("trace_duration_sec")) # FloatOf(7)
    /\ Val("syscalls_per_second") # FloatOf(100)

(***************************************************************************)
(* The database count.                                                     *)
(***************************************************************************)
\* the distinct paths ending in '.db' among the records whose syscall is in calls
DbPaths(recs, calls) ==
    { recs[i].path : i \in { j \in 1..Len(recs) : /\ recs[j].syscall \in calls
                                                  /\ EndsWith(recs[j].path, ".db") } }

SyscallsOf(recs) == { recs[i].syscall : i \in 1..Len(recs) }

\* C16: num_databases is the number of distinct paths ending in '.db' over
\* all records of the trace, whatever their syscall
C16_DatabasesOverAllRecords ==
    features # NoValue =>
        Val("num_databases") = Cardinality(DbPaths(records, SyscallsOf(records)))

\* what the code counts: the distinct '.db' paths of the open and openat records
DatabasesOverOpenRecords ==
    features # NoValue =>
        Val("num_databases") = Cardinality(DbPaths(records, {"open", "openat"}))

DatabasesWitness ==
    /\ features # NoValue
    /\ Val("num_databases") = 1
    /\ Cardinality(DbPaths(records, SyscallsOf(records))) = 2

(***************************************************************************)
(* The socket counts.                                                      *)
(***************************************************************************)
\* the number of records of the syscall whose family is one of families
CountFamily(recs, syscall, families) ==
    Cardinality({ i \in 1..Len(recs) : /\ recs[i].syscall = syscall
                                       /\ recs[i].family \in families })

\* C17: num_tcp_sockets counts the socket records of family ipv4 or ipv6,
\* num_unix_sockets those of family unix, num_udp_sockets is always 0, and
\* the three together never exceed num_socket
C17_SocketFamilies ==
    features # NoValue =>
        /\ Val("num_tcp_sockets") = CountFamily(records, "socket", {"ipv4", "ipv6"})
        /\ Val("num_unix_sockets") = CountFamily(records, "socket", {"unix"})
        /\ Val("num_udp_sockets") = 0
        /\ Val("num_tcp_sockets") + Val("num_unix_sockets") + Val("num_udp_sockets")
               <= Val("num_socket")

\* a trace of an ipv6 socket and a socket of no known family: two sockets,
\* one of them counted as tcp
C17_Witness ==
    /\ features # NoValue
    /\ Len(records) = 2
    /\ records[1].family = "ipv6"
    /\ Val("num_socket") = 2
    /\ Val("num_tcp_sockets") = 1
    /\ Val("num_unix_sockets") = 0

(***************************************************************************)
(* The distinct thread names and IP addresses.                             *)
(***************************************************************************)
CommsOf(recs) == { recs[i].comm : i \in 1..Len(recs) } \ {""}

\* the distinct non-empty ip values of the records whose syscall is in calls
IpsOf(recs, calls) ==
    { recs[i].ip : i \in { j \in 1..Len(recs) : recs[j].syscall \in calls } } \ {""}

\* the trace with its i-th record repeated at the end
Repeated(recs, i) == Append(recs, recs[i])

SameCardinalities(f, g) ==
    /\ f.vals["num_unique_threads"] = g.vals["num_unique_threads"]
    /\ f.vals["num_unique_ips"] = g.vals["num_unique_ips"]

\* C18: for a non-empty trace num_unique_threads is the number of distinct
\* non-empty comm values over all records, num_unique_ips the number of
\* distinct IP addresses seen in the trace, and repeating a record changes
\* neither
C18_DistinctThreadsAndIps ==
    features # NoValue /\ Len(records) > 0 =>
        /\ Val("num_unique_threads") = Cardinality(CommsOf(records))
        /\ Val("num_unique_ips") = Cardinality(IpsOf(records, SyscallsOf(records)))
        /\ \A i \in 1..Len(records) :
               SameCardinalities(features, VectorOf(Repeated(records, i)))

\* what the code counts: the IP addresses of the connect records only
DistinctThreadsAndConnectIps ==
    features # NoValue /\ Len(records) > 0 =>
        /\ Val("num_unique_threads") = Cardinality(CommsOf(records))
        /\ Val("num_unique_ips") = Cardinality(IpsOf(records, {"connect"}))
        /\ \A i \in 1..Len(records) :
               SameCardinalities(features, VectorOf(Repeated(records, i)))

DistinctIpsWitness ==
    /\ features # NoValue
    /\ Val("num_unique_ips") = 1
    /\ Val("num_unique_threads") = 1
    /\ Len(records) = 2
    /\ records[1] = records[2]

(***************************************************************************)
(* The order of the records.                                               *)
(***************************************************************************)
MaxOrderRecords == 3

\* the records whose place in the trace could matter: those with a timestamp,
\* the connects, the writes
OrderPool ==
    { r \in RecordPool : r.timestamp # "" \/ r.syscall \in {"connect", "write"} }

InitOrder ==
    /\ records \in SeqsUpTo(OrderPool, MaxOrderRecords)
    /\ package \in Packages
    /\ features = NoValue
    /\ heap = << >>
    /\ probe = << >> /\ first = NoValue /\ last = NoValue /\ ncalls = 0
    /\ log_lines = << >> /\ parsed = NoValue
    /\ dir = << >> /\ out_before = NoValue /\ output_csv = NoValue
    /\ trace_files = << >> /\ todo = << >> /\ all_features = << >>
    /\ stdout = << >> /\ pc = "idle"

SpecOrder == InitOrder /\ [][Next]_vars

Permuted(recs, p) == [i \in 1..Len(recs) |-> recs[p[i]]]

\* C20: the exported vector depends on the multiset of records only: every
\* permutation of the record sequence gives the same exported attributes
C20_OrderIndependent ==
    features # NoValue =>
        \A p \in Permutations(1..Len(records)) :
            features_to_dict(VectorOf(Permuted(records, p))) = features_to_dict(features)

\* a trace of three different records whose first and last timestamps depend
\* on the order
C20_Witness ==
    /\ features # NoValue
    /\ Len(records) = 3
    /\ records[1].timestamp # "" /\ records[3].timestamp # ""
    /\ records[1].timestamp # records[3].timestamp
    /\ records[2].syscall = "connect"

====
